---- MODULE Spec2Model ----
(***************************************************************************)
(* excel-helper: split_excel_file (src/src/excel.rs) as a state machine,   *)
(* with the pure helpers it calls as operators.                            *)
(*                                                                         *)
(* Text that the code inspects (cell references, XML names, archive paths) *)
(* is a sequence of one-character strings.  Cell text, which the code only *)
(* copies, is a sequence too: the empty sequence is the empty string.      *)
(* An Option is a sequence of length 0 (None) or 1 (Some).                 *)
(***************************************************************************)
EXTENDS Integers, Sequences, FiniteSets, TLC

VARIABLES
    pc,            \* position in split_excel_file
    chunk_size,    \* argument
    header_rows,   \* argument
    sheet_name,    \* excel.rs:62
    rows,          \* excel.rs:72
    merge_ranges,  \* excel.rs:81
    start,         \* excel.rs:96
    index,         \* excel.rs:97
    chunks,        \* excel.rs:84
    files,         \* the write_chunk calls made so far, in call order
    result,        \* the value returned
    source,        \* argument: the path of the source file
    container,     \* extract_merge_ranges alone: the file it is run on
    extracted,     \* extract_merge_ranges alone: what it returned
    sheet_refs,    \* parse_merge_cells alone: the references of the sheet part
    cell_text,     \* parse_cell_ref alone: the cell reference it is run on
    decoded,       \* parse_cell_ref alone: what became of the call
    app,           \* ExcelHelperApp, app.rs:14-21
    tasks          \* the threads start_split has spawned, in spawn order

vars == <<pc, chunk_size, header_rows, sheet_name, rows, merge_ranges,
          start, index, chunks, files, result, source,
          container, extracted, sheet_refs, cell_text, decoded,
          app, tasks>>

\* The variables split_excel_file leaves alone.
parts_vars == <<container, extracted, sheet_refs, cell_text, decoded, app, tasks>>

-----------------------------------------------------------------------------
(* Bounds of the model. *)

MaxRows == 4
MaxChunk == 3
MaxHeader == 2
MaxMerges == 1

-----------------------------------------------------------------------------
(* Small helpers. *)

Min(a, b) == IF a <= b THEN a ELSE b
Max(a, b) == IF a >= b THEN a ELSE b

None == <<>>
Some(x) == <<x>>

EndsWith(s, suffix) ==
    /\ Len(s) >= Len(suffix)
    /\ SubSeq(s, Len(s) - Len(suffix) + 1, Len(s)) = suffix

Ok(v) == [ok |-> TRUE, value |-> v, error |-> "none"]
Err(e) == [ok |-> FALSE, value |-> <<>>, error |-> e]

-----------------------------------------------------------------------------
(* Characters.  A character is a one-character string; its class and value *)
(* are read from these tables, as char::is_ascii_alphabetic,               *)
(* char::is_ascii_digit and char::to_ascii_uppercase read them from ASCII. *)

Upper == <<"A", "B", "C", "D", "E", "F", "G", "H", "I", "J", "K", "L", "M",
           "N", "O", "P", "Q", "R", "S", "T", "U", "V", "W", "X", "Y", "Z">>
Lower == <<"a", "b", "c", "d", "e", "f", "g", "h", "i", "j", "k", "l", "m",
           "n", "o", "p", "q", "r", "s", "t", "u", "v", "w", "x", "y", "z">>
Digits == <<"0", "1", "2", "3", "4", "5", "6", "7", "8", "9">>

is_ascii_alphabetic(ch) == \E i \in 1..26 : Upper[i] = ch \/ Lower[i] = ch
is_ascii_digit(ch) == \E i \in 1..10 : Digits[i] = ch
is_whitespace(ch) == ch = " "

\* (ch.to_ascii_uppercase() as u8) - b'A', excel.rs:417
LetterOffset(ch) == (CHOOSE i \in 1..26 : Upper[i] = ch \/ Lower[i] = ch) - 1
DigitValue(ch) == (CHOOSE i \in 1..10 : Digits[i] = ch) - 1

checked_sub(a, b) == IF a >= b THEN Some(a - b) ELSE None

\* str::trim: the text without its leading and trailing whitespace.
RECURSIVE trim_start(_)
trim_start(s) ==
    IF s # <<>> /\ is_whitespace(Head(s)) THEN trim_start(Tail(s)) ELSE s

RECURSIVE trim_end(_)
trim_end(s) ==
    IF s # <<>> /\ is_whitespace(s[Len(s)])
    THEN trim_end(SubSeq(s, 1, Len(s) - 1))
    ELSE s

trim(s) == trim_end(trim_start(s))

\* str::split(':'): the pieces between the colons, in order; never empty.
RECURSIVE split_colon(_, _)
split_colon(s, piece) ==
    IF s = <<>> THEN <<piece>>
    ELSE IF Head(s) = ":" THEN <<piece>> \o split_colon(Tail(s), <<>>)
    ELSE split_colon(Tail(s), Append(piece, Head(s)))

\* str::parse::<usize> of a non-empty run of ASCII digits.  The runs of the
\* model are far shorter than the 20 digits a usize overflow needs.
RECURSIVE parse_usize(_, _)
parse_usize(digits, value) ==
    IF digits = <<>> THEN value
    ELSE parse_usize(Tail(digits), value * 10 + DigitValue(Head(digits)))

-----------------------------------------------------------------------------
(* column_label_to_index, excel.rs:411-421, on a 64-bit usize.  TLC's     *)
(* integers are narrower than a usize, so `value` is kept in four 16-bit   *)
(* limbs, lowest first.  checked_mul returns None when the product does    *)
(* not fit; the two additions after it are unchecked: past usize::MAX they *)
(* wrap in a build without overflow checks and panic in one with them.     *)

LimbBase == 65536
WideZero == <<0, 0, 0, 0>>

\* w * k + carry for small k and carry, from limb i on: the limbs of the
\* result from i on, then what is carried out of the fourth.  (A value
\* that is named more than once is bound as the one element of a set, so
\* that it is computed once.)
RECURSIVE WideMulAddFrom(_, _, _, _)
WideMulAddFrom(w, k, carry, i) ==
    IF i > 4 THEN <<carry>>
    ELSE CHOOSE out \in
             {<<t % LimbBase>> \o WideMulAddFrom(w, k, t \div LimbBase, i + 1) :
                 t \in {w[i] * k + carry}} : TRUE

\* w * k + add: the low four limbs and what is carried out of them.
WideMulAdd(w, k, add) ==
    CHOOSE out \in {[limbs |-> SubSeq(r, 1, 4), carry |-> r[5]] :
                       r \in {WideMulAddFrom(w, k, add, 1)}} : TRUE

\* usize::checked_mul(26)
checked_mul_26(w) ==
    LET product == WideMulAdd(w, 26, 0)
    IN  IF product.carry = 0 THEN Some(product.limbs) ELSE None

\* w - 1 for w above zero.
WidePred(w) ==
    IF w[1] > 0 THEN <<w[1] - 1, w[2], w[3], w[4]>>
    ELSE IF w[2] > 0 THEN <<LimbBase - 1, w[2] - 1, w[3], w[4]>>
    ELSE IF w[3] > 0 THEN <<LimbBase - 1, LimbBase - 1, w[3] - 1, w[4]>>
    ELSE <<LimbBase - 1, LimbBase - 1, LimbBase - 1, w[4] - 1>>

\* The usize as the model carries it on: the integer, or its limbs when
\* it is beyond TLC's integers.
UsizeValue(w) ==
    IF w[4] = 0 /\ w[3] = 0 /\ w[2] < LimbBase \div 2
    THEN w[2] * LimbBase + w[1]
    ELSE w

\* excel.rs:418: value.checked_mul(26)? + offset + 1.  `wrapped` tells
\* whether the sum went past usize::MAX.
LabelStep(value, ch) ==
    CHOOSE out \in
        {IF product = None THEN [value |-> None, wrapped |-> FALSE]
         ELSE CHOOSE summed \in
                  {[value |-> Some(sum.limbs), wrapped |-> sum.carry > 0] :
                      sum \in {WideMulAdd(product[1], 1, LetterOffset(ch) + 1)}} :
                  TRUE :
            product \in {checked_mul_26(value)}} : TRUE

\* excel.rs:412-419: the loop, from `value` on; what it leaves in `value`
\* (None where the function has returned None) when additions wrap, and
\* whether one did.  Each step is taken once, as the one element of a set.
RECURSIVE column_label_fold(_, _, _)
column_label_fold(label, value, wrapped) ==
    IF label = <<>> THEN [value |-> Some(value), wrapped |-> wrapped]
    ELSE IF ~is_ascii_alphabetic(Head(label))
    THEN [value |-> None, wrapped |-> wrapped]
    ELSE CHOOSE folded \in
             {IF step.value = None THEN [value |-> None, wrapped |-> wrapped]
              ELSE column_label_fold(Tail(label), step.value[1],
                                     wrapped \/ step.wrapped) :
                 step \in {LabelStep(value, Head(label))}} : TRUE

\* What column_label_to_index returns in limbs, additions wrapping.
column_label_wide(label) ==
    LET folded == column_label_fold(label, WideZero, FALSE).value
    IN  IF folded = None \/ folded = Some(WideZero) THEN None
        ELSE Some(WidePred(folded[1]))

\* Whether column_label_to_index panics in a build with overflow checks.
column_label_panics(label) == column_label_fold(label, WideZero, FALSE).wrapped

column_label_to_index(label) ==
    LET index_wide == column_label_wide(label)
    IN  IF index_wide = None THEN None ELSE Some(UsizeValue(index_wide[1]))

(* parse_cell_ref, excel.rs:387-409.  The loop keeps the letters in        *)
(* col_part and the digits in row_part, returns None at a letter that      *)
(* follows a digit, and passes over every other character.                 *)

RECURSIVE cell_ref_scan(_, _, _)
cell_ref_scan(cell, col_part, row_part) ==
    IF cell = <<>> THEN Some(<<col_part, row_part>>)
    ELSE LET ch == Head(cell)
         IN  IF is_ascii_alphabetic(ch)
             THEN IF row_part # <<>>
                  THEN None
                  ELSE cell_ref_scan(Tail(cell), Append(col_part, ch), row_part)
             ELSE IF is_ascii_digit(ch)
             THEN cell_ref_scan(Tail(cell), col_part, Append(row_part, ch))
             ELSE cell_ref_scan(Tail(cell), col_part, row_part)

parse_cell_ref(cell) ==
    IF cell = <<>> THEN None
    ELSE LET parts == cell_ref_scan(cell, <<>>, <<>>)
         IN  IF parts = None THEN None
             ELSE IF parts[1][1] = <<>> \/ parts[1][2] = <<>> THEN None
             ELSE LET col == column_label_to_index(parts[1][1])
                      row == checked_sub(parse_usize(parts[1][2], 0), 1)
                  IN  IF col = None \/ row = None THEN None
                      ELSE Some(<<row[1], col[1]>>)

\* Whether parse_cell_ref panics in a build with overflow checks: it
\* does when its call of column_label_to_index does (excel.rs:406).
parse_cell_ref_panics(cell) ==
    LET parts == cell_ref_scan(cell, <<>>, <<>>)
    IN  /\ cell # <<>>
        /\ parts # None
        /\ parts[1][1] # <<>>
        /\ parts[1][2] # <<>>
        /\ column_label_panics(parts[1][1])

(* parse_range_ref, excel.rs:363-385. *)

MergeRange(sr, er, sc, ec) ==
    [start_row |-> sr, end_row |-> er, start_col |-> sc, end_col |-> ec]

RangeStartText(range) == trim(split_colon(range, <<>>)[1])

RangeEndText(range) ==
    LET parts == split_colon(range, <<>>)
    IN  IF Len(parts) >= 2 THEN trim(parts[2]) ELSE RangeStartText(range)

NormalizeRange(s, e) ==
    MergeRange(IF s[1] <= e[1] THEN s[1] ELSE e[1],
               IF s[1] <= e[1] THEN e[1] ELSE s[1],
               IF s[2] <= e[2] THEN s[2] ELSE e[2],
               IF s[2] <= e[2] THEN e[2] ELSE s[2])

parse_range_ref(range) ==
    LET s == parse_cell_ref(RangeStartText(range))
        e == parse_cell_ref(RangeEndText(range))
    IN  IF s = None \/ e = None THEN None
        ELSE Some(NormalizeRange(s[1], e[1]))

-----------------------------------------------------------------------------
(* The XML parts of the container.  A part is the sequence of events       *)
(* quick_xml's reader yields from it: elements (Start, Empty) with a name  *)
(* and attributes, other events (End, Text), and Error where the reader    *)
(* returns Err; past the last event the reader yields Eof.  An attribute   *)
(* is [key, value, decodes], decodes saying whether                       *)
(* decode_and_unescape_value returns Ok.                                   *)

TxtSheet == <<"s", "h", "e", "e", "t">>
TxtMergeCell == <<"m", "e", "r", "g", "e", "C", "e", "l", "l">>
TxtRelationship == <<"R", "e", "l", "a", "t", "i", "o", "n", "s", "h", "i", "p">>
TxtName == <<"n", "a", "m", "e">>
TxtColonId == <<":", "i", "d">>
TxtId == <<"I", "d">>
TxtTarget == <<"T", "a", "r", "g", "e", "t">>
TxtRef == <<"r", "e", "f">>
TxtXlsx == <<"x", "l", "s", "x">>
TxtXlSlash == <<"x", "l", "/">>
PathWorkbookXml == <<"x", "l", "/", "w", "o", "r", "k", "b", "o", "o", "k", ".", "x", "m", "l">>
PathWorkbookRels == <<"x", "l", "/", "_", "r", "e", "l", "s", "/", "w", "o", "r", "k", "b", "o", "o", "k", ".", "x", "m", "l", ".", "r", "e", "l", "s">>

IsElement(event) == event.type = "Start" \/ event.type = "Empty"

(* parse_merge_cells, excel.rs:334-361. *)

MergeCellRefs(attrs) ==
    LET RECURSIVE collect(_)
        collect(rest) ==
            IF rest = <<>> THEN <<>>
            ELSE LET attr == Head(rest)
                     range == IF EndsWith(attr.key, TxtRef) /\ attr.decodes
                              THEN parse_range_ref(trim(attr.value))
                              ELSE None
                 IN  range \o collect(Tail(rest))
    IN  collect(attrs)

RECURSIVE merge_cells_scan(_, _)
merge_cells_scan(events, ranges) ==
    IF events = <<>> THEN ranges
    ELSE LET event == Head(events)
         IN  IF event.type = "Error" THEN ranges
             ELSE IF IsElement(event) /\ EndsWith(event.name, TxtMergeCell)
             THEN merge_cells_scan(Tail(events),
                                   ranges \o MergeCellRefs(event.attrs))
             ELSE merge_cells_scan(Tail(events), ranges)

parse_merge_cells(sheet_xml) == merge_cells_scan(sheet_xml, <<>>)

(* find_sheet_rel_id, excel.rs:264-298, and find_sheet_target,             *)
(* excel.rs:300-332.  Both read the two attributes of an element with      *)
(* AttrPair: the last attribute whose key ends in first_key, the last      *)
(* whose key ends in second_key (tried only when the first does not        *)
(* match), or the error of the first such attribute that does not decode.  *)

RECURSIVE AttrPair(_, _, _, _, _)
AttrPair(attrs, first_key, second_key, first, second) ==
    IF attrs = <<>> THEN Ok(<<first, second>>)
    ELSE LET attr == Head(attrs)
         IN  IF EndsWith(attr.key, first_key)
             THEN IF attr.decodes
                  THEN AttrPair(Tail(attrs), first_key, second_key,
                                Some(attr.value), second)
                  ELSE Err("AttributeDecode")
             ELSE IF EndsWith(attr.key, second_key)
             THEN IF attr.decodes
                  THEN AttrPair(Tail(attrs), first_key, second_key,
                                first, Some(attr.value))
                  ELSE Err("AttributeDecode")
             ELSE AttrPair(Tail(attrs), first_key, second_key, first, second)

RECURSIVE find_sheet_rel_id(_, _)
find_sheet_rel_id(workbook_xml, name) ==
    IF workbook_xml = <<>> THEN Err("SheetRelationNotFound")
    ELSE LET event == Head(workbook_xml)
         IN  IF event.type = "Error" THEN Err("SheetRelationNotFound")
             ELSE IF IsElement(event) /\ EndsWith(event.name, TxtSheet)
             THEN LET pair == AttrPair(event.attrs, TxtName, TxtColonId,
                                       None, None)
                  IN  IF ~pair.ok THEN pair
                      ELSE IF /\ pair.value[1] # None
                              /\ pair.value[2] # None
                              /\ pair.value[1][1] = name
                      THEN Ok(pair.value[2][1])
                      ELSE find_sheet_rel_id(Tail(workbook_xml), name)
             ELSE find_sheet_rel_id(Tail(workbook_xml), name)

RECURSIVE find_sheet_target(_, _)
find_sheet_target(rels_xml, rel_id) ==
    IF rels_xml = <<>> THEN Err("SheetPathNotFound")
    ELSE LET event == Head(rels_xml)
         IN  IF event.type = "Error" THEN Err("SheetPathNotFound")
             ELSE IF IsElement(event) /\ EndsWith(event.name, TxtRelationship)
             THEN LET pair == AttrPair(event.attrs, TxtId, TxtTarget,
                                       None, None)
                  IN  IF ~pair.ok THEN pair
                      ELSE IF /\ pair.value[1] = Some(rel_id)
                              /\ pair.value[2] # None
                      THEN Ok(pair.value[2][1])
                      ELSE find_sheet_target(Tail(rels_xml), rel_id)
             ELSE find_sheet_target(Tail(rels_xml), rel_id)

(* read_zip_entry, excel.rs:251-262.  An archive is a set of entries       *)
(* [name, utf8, xml]: xml is what the reader yields from the contents.     *)

read_zip_entry(archive, path) ==
    IF ~\E entry \in archive : entry.name = path THEN Err("EntryMissing")
    ELSE LET entry == CHOOSE e \in archive : e.name = path
         IN  IF entry.utf8 THEN Ok(entry.xml) ELSE Err("EntryUnreadable")

(* extract_merge_ranges, excel.rs:227-249.  A source file is               *)
(* [extension, opens, zip, archive]: its extension, whether File::open     *)
(* and ZipArchive::new succeed, and the archive's entries.                 *)

to_ascii_lowercase(s) ==
    [i \in 1..Len(s) |->
        IF \E k \in 1..26 : Upper[k] = s[i]
        THEN Lower[CHOOSE k \in 1..26 : Upper[k] = s[i]]
        ELSE s[i]]

RECURSIVE trim_start_slashes(_)
trim_start_slashes(s) ==
    IF s # <<>> /\ Head(s) = "/" THEN trim_start_slashes(Tail(s)) ELSE s

SheetPartPath(target) == TxtXlSlash \o trim_start_slashes(target)

SheetPartResult(sheet_xml) == Ok(parse_merge_cells(sheet_xml))

extract_merge_ranges(source_file, name) ==
    IF to_ascii_lowercase(source_file.extension) # TxtXlsx THEN Ok(<<>>)
    ELSE IF ~source_file.opens THEN Err("FileOpen")
    ELSE IF ~source_file.zip THEN Err("ZipOpen")
    ELSE LET workbook_xml == read_zip_entry(source_file.archive, PathWorkbookXml)
         IN  IF ~workbook_xml.ok THEN workbook_xml
             ELSE LET rel_id == find_sheet_rel_id(workbook_xml.value, name)
                  IN  IF ~rel_id.ok THEN rel_id
                      ELSE LET rels_xml == read_zip_entry(source_file.archive,
                                                          PathWorkbookRels)
                           IN  IF ~rels_xml.ok THEN rels_xml
                               ELSE LET target == find_sheet_target(
                                                      rels_xml.value, rel_id.value)
                                    IN  IF ~target.ok THEN target
                                        ELSE LET sheet_xml == read_zip_entry(
                                                    source_file.archive,
                                                    SheetPartPath(target.value))
                                             IN  IF ~sheet_xml.ok THEN sheet_xml
                                                 ELSE SheetPartResult(sheet_xml.value)

-----------------------------------------------------------------------------
(* The chunk helpers, excel.rs:423-504.  Rows and columns are 0-based, as  *)
(* in the code; a Vec is a sequence, so v.get(i) is v[i + 1].              *)

U16Max == 65535

\* A variant of row_in_chunk without the upper end of the data slice.
row_in_chunk_open(row, header_len, data_start, data_end) ==
    IF row < header_len THEN TRUE
    ELSE row - header_len >= data_start

row_in_chunk(row, header_len, data_start, data_end) ==
    IF row < header_len THEN TRUE
    ELSE LET data_idx == row - header_len
         IN  data_idx >= data_start /\ data_idx < data_end

\* A variant of map_row_to_chunk that puts every data row on the first one.
map_row_first_data(row, header_len, data_start) ==
    IF row < header_len THEN row ELSE header_len

\* A variant of map_row_to_chunk that leaves data rows where they were.
map_row_unshifted(row, header_len, data_start) ==
    IF row < header_len THEN row
    ELSE header_len + (row - header_len)

map_row_to_chunk(row, header_len, data_start) ==
    IF row < header_len THEN row
    ELSE header_len + (row - header_len - data_start)

\* Vec::get(i).and_then(|r| r.get(col)).cloned().unwrap_or_default()
CellOrDefault(grid, i, col) ==
    IF i + 1 <= Len(grid) /\ col + 1 <= Len(grid[i + 1])
    THEN grid[i + 1][col + 1]
    ELSE <<>>

get_cell_value(header_data, data_data, header_len, row, col) ==
    IF row < header_len
    THEN CellOrDefault(header_data, row, col)
    ELSE CellOrDefault(data_data, row - header_len, col)

\* The body of the loop of map_chunk_merges for one merge: the ChunkMerge
\* pushed (Some) or nothing (None).  The rows of the model are far below
\* 2^32, where `as u32` would truncate.
ChunkMergeOf(merge, header_len, data_start, data_end, header_data, data_data) ==
    IF \/ ~row_in_chunk(merge.start_row, header_len, data_start, data_end)
       \/ ~row_in_chunk(merge.end_row, header_len, data_start, data_end)
    THEN None
    ELSE IF merge.start_col > U16Max \/ merge.end_col > U16Max THEN None
    ELSE Some([start_row |-> map_row_to_chunk(merge.start_row, header_len,
                                               data_start),
               end_row |-> map_row_to_chunk(merge.end_row, header_len,
                                             data_start),
               start_col |-> merge.start_col,
               end_col |-> merge.end_col,
               value |-> get_cell_value(header_data, data_data, header_len,
                                        merge.start_row, merge.start_col)])

RECURSIVE map_chunk_merges(_, _, _, _, _, _)
map_chunk_merges(merges, header_len, data_start, data_end, header_data, data_data) ==
    IF merges = <<>> THEN <<>>
    ELSE ChunkMergeOf(Head(merges), header_len, data_start, data_end,
                      header_data, data_data)
         \o map_chunk_merges(Tail(merges), header_len, data_start, data_end,
                             header_data, data_data)

(* write_chunk, excel.rs:122-163.  The worksheet is the function from      *)
(* (row, column) to the text write_string put there; a later write to a    *)
(* cell replaces an earlier one.  The workbook saved is the worksheet and  *)
(* the merge_range calls, in order.                                        *)

WriteRow(sheet, current_row, row) ==
    [rc \in {<<current_row, col_idx>> : col_idx \in 0..(Len(row) - 1)}
        |-> row[rc[2] + 1]] @@ sheet

RECURSIVE WriteRows(_, _, _)
WriteRows(sheet, current_row, row_list) ==
    IF row_list = <<>> THEN [sheet |-> sheet, current_row |-> current_row]
    ELSE WriteRows(WriteRow(sheet, current_row, Head(row_list)),
                   current_row + 1, Tail(row_list))

EmptySheet == [rc \in {} |-> <<>>]

\* A variant of write_chunk that starts current_row again at 0 for the data.
write_chunk_restart(destination, header_data, data_data, merges) ==
    LET after_header == WriteRows(EmptySheet, 0, header_data)
        after_data == WriteRows(after_header.sheet, 0, data_data)
    IN  [path |-> destination,
         sheet |-> after_data.sheet,
         row_count |-> Max(after_header.current_row, after_data.current_row),
         merges |-> merges]

write_chunk(destination, header_data, data_data, merges) ==
    LET after_header == WriteRows(EmptySheet, 0, header_data)
        after_data == WriteRows(after_header.sheet, after_header.current_row,
                                data_data)
    IN  [path |-> destination,
         sheet |-> after_data.sheet,
         row_count |-> after_data.current_row,
         merges |-> merges]

(* build_output_path, excel.rs:215-225.  A path is [parent, stem,          *)
(* extension], parent and stem being Options; the output name is the       *)
(* sequence of the pieces format! joins.                                   *)

build_output_path(source_path, part) ==
    [parent |-> IF source_path.parent = None THEN "." ELSE source_path.parent[1],
     name |-> <<IF source_path.stem = None THEN "split" ELSE source_path.stem[1],
                "_part", part, ".xlsx">>]

-----------------------------------------------------------------------------
(* The inputs of split_excel_file.                                         *)

\* The grid calamine's range yields after convert_row: n rows, the row r
\* (1-based) of 2 cells when r is odd and of 1 cell when r is even.  The
\* code copies cell text and never reads it, so every cell holds a text of
\* its own, <<r, c>>: a row or a cell that lands in the wrong place shows.
RowWidth(r) == 1 + (r % 2)
Sheet(n) == [r \in 1..n |-> [c \in 1..RowWidth(r) |-> <<r, c>>]]
Grids == {Sheet(n) : n \in 0..MaxRows}

\* The source paths: dir/book.xlsx and dir/book.xls.
SourcePaths ==
    {[parent |-> Some("dir"), stem |-> Some("book"), extension |-> ext] :
        ext \in {TxtXlsx, <<"x", "l", "s">>}}

TxtS1 == <<"S", "1">>
TxtRId1 == <<"r", "I", "d", "1">>
TxtSheetTarget == <<"w", "o", "r", "k", "s", "h", "e", "e", "t", "s", "/", "s", "h", "e", "e", "t", "1", ".", "x", "m", "l">>

Element(type, name, attrs) == [type |-> type, name |-> name, attrs |-> attrs]
Attr(key, value) == [key |-> key, value |-> value, decodes |-> TRUE]
OtherEvent(type) == [type |-> type, name |-> <<>>, attrs |-> <<>>]

\* The merge references a sheet part may hold, top-left:bottom-right: the
\* rows among 1..MaxRows, the columns A:B (the anchor cell is in every
\* row), B:B (the short rows have no anchor cell), A:CRXQ and CRXQ:CRXQ
\* (CRXQ is column 65536, the first one past u16).
ColSpans == {<<<<"A">>, <<"B">>>>, <<<<"B">>, <<"B">>>>,
             <<<<"A">>, <<"C", "R", "X", "Q">>>>,
             <<<<"C", "R", "X", "Q">>, <<"C", "R", "X", "Q">>>>}
CellText(label, row_number) == label \o <<Digits[row_number + 1]>>
MergeRefs ==
    {CellText(q[1][1], q[2]) \o <<":">> \o CellText(q[1][2], q[3]) :
        q \in {q \in ColSpans \X (1..MaxRows) \X (1..MaxRows) : q[2] <= q[3]}}

RECURSIVE SeqsUpTo(_, _)
SeqsUpTo(S, n) ==
    IF n = 0 THEN {<<>>}
    ELSE LET shorter == SeqsUpTo(S, n - 1)
         IN  shorter \cup {Append(q, x) : q \in shorter, x \in S}

WorkbookXml ==
    <<Element("Start", <<"w", "o", "r", "k", "b", "o", "o", "k">>, <<>>),
      Element("Start", <<"s", "h", "e", "e", "t", "s">>, <<>>),
      Element("Empty", TxtSheet,
              <<Attr(TxtName, TxtS1), Attr(<<"s", "h", "e", "e", "t", "I", "d">>, <<"1">>),
                Attr(<<"r", ":", "i", "d">>, TxtRId1)>>),
      OtherEvent("End"), OtherEvent("End")>>

RelsXml ==
    <<Element("Start", <<"R", "e", "l", "a", "t", "i", "o", "n", "s", "h", "i", "p", "s">>, <<>>),
      Element("Empty", TxtRelationship,
              <<Attr(TxtId, TxtRId1), Attr(<<"T", "y", "p", "e">>, <<"w">>),
                Attr(TxtTarget, TxtSheetTarget)>>),
      OtherEvent("End")>>

MergeCellElement(ref) == Element("Empty", TxtMergeCell, <<Attr(TxtRef, ref)>>)

SheetXml(refs) ==
    <<Element("Start", <<"w", "o", "r", "k", "s", "h", "e", "e", "t">>, <<>>),
      Element("Start", <<"m", "e", "r", "g", "e", "C", "e", "l", "l", "s">>, <<>>)>>
    \o [i \in 1..Len(refs) |-> MergeCellElement(refs[i])]
    \o <<OtherEvent("End"), OtherEvent("End")>>

Entry(name, xml) == [name |-> name, utf8 |-> TRUE, xml |-> xml]

WellFormedFile(refs) ==
    [opens |-> TRUE, zip |-> TRUE,
     archive |-> {Entry(PathWorkbookXml, WorkbookXml),
                  Entry(PathWorkbookRels, RelsXml),
                  Entry(SheetPartPath(TxtSheetTarget), SheetXml(refs))}]

\* The files split_excel_file is run on: the well-formed containers with
\* up to MaxMerges merge references, one that is no ZIP archive and one
\* without its workbook descriptor.
SplitFiles ==
    {WellFormedFile(refs) : refs \in SeqsUpTo(MergeRefs, MaxMerges)}
    \cup {[opens |-> TRUE, zip |-> FALSE, archive |-> {}],
          [opens |-> TRUE, zip |-> TRUE,
           archive |-> {Entry(PathWorkbookRels, RelsXml)}]}

NoFile == [opens |-> FALSE, zip |-> FALSE, archive |-> {}]

SourceFile(path, file) ==
    [extension |-> path.extension, opens |-> file.opens, zip |-> file.zip,
     archive |-> file.archive]

-----------------------------------------------------------------------------
(* ExcelHelperApp, src/src/app.rs.  The status texts are tags.  A task     *)
(* is the thread Promise::spawn_thread started on split_excel_file: it is  *)
(* "running" until the call returns, "finished" once its result is in the  *)
(* promise, and "taken" once poll_promise has taken the result out.        *)
(* `reported` counts the times poll_promise set the status from it.        *)

StatusIdle == [kind |-> "Idle", text |-> "none"]
StatusInfo(msg) == [kind |-> "Info", text |-> msg]
StatusSuccess(msg) == [kind |-> "Success", text |-> msg]
StatusError(msg) == [kind |-> "Error", text |-> msg]

\* app.rs:24-33 and 37-41: Default, then ensure_fonts.
NewApp ==
    [header_row_input |-> <<"1">>,
     row_count_input |-> <<"5", "0", "0">>,
     selected_file |-> None,
     status |-> StatusIdle,
     split_promise |-> None,
     fonts_configured |-> TRUE]

\* str::parse::<usize>: digits, with or without a plus sign before them.
ParsesAsUsize(text) ==
    LET digits == IF text # <<>> /\ Head(text) = "+" THEN Tail(text) ELSE text
    IN  digits # <<>> /\ \A i \in 1..Len(digits) : is_ascii_digit(digits[i])

UsizeOf(text) ==
    parse_usize(IF Head(text) = "+" THEN Tail(text) ELSE text, 0)

\* app.rs:122-136
parse_header_rows(input) ==
    LET trimmed == trim(input)
    IN  IF trimmed = <<>> THEN Err("HeaderRowsEmpty")
        ELSE IF ~ParsesAsUsize(trimmed) THEN Err("HeaderRowsNotNumber")
        ELSE IF UsizeOf(trimmed) = 0 THEN Err("HeaderRowsZero")
        ELSE [ok |-> TRUE, value |-> UsizeOf(trimmed), error |-> "none"]

\* app.rs:138-152
parse_row_limit(input) ==
    LET trimmed == trim(input)
    IN  IF trimmed = <<>> THEN Err("RowLimitEmpty")
        ELSE IF ~ParsesAsUsize(trimmed) THEN Err("RowLimitNotNumber")
        ELSE IF UsizeOf(trimmed) = 0 THEN Err("RowLimitZero")
        ELSE [ok |-> TRUE, value |-> UsizeOf(trimmed), error |-> "none"]

\* app.rs:115-117
SpawnThread(path, row_limit, header_len) ==
    [path |-> path, row_limit |-> row_limit, header_rows |-> header_len,
     state |-> "running", result |-> Err("none"), reported |-> 0]

\* A variant of start_split without the check of split_promise.
start_split_unguarded(a, ts) ==
    LET rejected(msg) == [app |-> [a EXCEPT !.status = StatusError(msg)],
                          tasks |-> ts]
        header_len == parse_header_rows(a.header_row_input)
        row_limit == parse_row_limit(a.row_count_input)
    IN  IF a.selected_file = None THEN rejected("NoFileSelected")
        ELSE IF ~header_len.ok THEN rejected(header_len.error)
        ELSE IF ~row_limit.ok THEN rejected(row_limit.error)
        ELSE IF row_limit.value <= header_len.value
        THEN rejected("RowLimitNotAboveHeader")
        ELSE [app |-> [a EXCEPT !.split_promise = Some(Len(ts) + 1),
                                !.status = StatusInfo("Splitting")],
              tasks |-> Append(ts, SpawnThread(a.selected_file[1],
                                               row_limit.value,
                                               header_len.value))]

\* app.rs:81-120: the app and the tasks after the call.
start_split(a, ts) ==
    LET rejected(msg) == [app |-> [a EXCEPT !.status = StatusError(msg)],
                          tasks |-> ts]
        header_len == parse_header_rows(a.header_row_input)
        row_limit == parse_row_limit(a.row_count_input)
    IN  IF a.split_promise # None THEN [app |-> a, tasks |-> ts]
        ELSE IF a.selected_file = None THEN rejected("NoFileSelected")
        ELSE IF ~header_len.ok THEN rejected(header_len.error)
        ELSE IF ~row_limit.ok THEN rejected(row_limit.error)
        ELSE IF row_limit.value <= header_len.value
        THEN rejected("RowLimitNotAboveHeader")
        ELSE [app |-> [a EXCEPT !.split_promise = Some(Len(ts) + 1),
                                !.status = StatusInfo("Splitting")],
              tasks |-> Append(ts, SpawnThread(a.selected_file[1],
                                               row_limit.value,
                                               header_len.value))]

\* app.rs:154-166 with handle_success, 168-187.
poll_promise(a, ts) ==
    IF a.split_promise = None THEN [app |-> a, tasks |-> ts]
    ELSE LET id == a.split_promise[1]
         IN  IF ts[id].state = "finished"
             THEN [app |-> [a EXCEPT !.split_promise = None,
                                     !.status = IF ts[id].result.ok
                                                THEN StatusSuccess("SplitDone")
                                                ELSE StatusError("SplitFailed")],
                   tasks |-> [ts EXCEPT ![id].state = "taken",
                                        ![id].reported = @ + 1]]
             ELSE [app |-> a, tasks |-> ts]

\* app.rs:71-79: the dialog gives a path or is cancelled.
pick_file(a, picked) ==
    IF picked # None THEN [a EXCEPT !.selected_file = picked] ELSE a

-----------------------------------------------------------------------------
(* split_excel_file, excel.rs:42-120.                                      *)

EmptySplit == [total_rows |-> 0, header_rows |-> 0, chunks |-> <<>>]
Pending == [kind |-> "Pending", error |-> "none", value |-> EmptySplit]
Failure(e) == [kind |-> "Err", error |-> e, value |-> EmptySplit]
Success(v) == [kind |-> "Ok", error |-> "none", value |-> v]

\* excel.rs:77-79
header == SubSeq(rows, 1, header_rows)
data_rows == SubSeq(rows, header_rows + 1, Len(rows))
total_rows == Len(rows)

\* A variant of ValidateParameters that lets chunk_size = header_rows pass.
ValidateParametersLax(size, header_len) ==
    IF size = 0 THEN "ChunkSizeZero"
    ELSE IF header_len = 0 THEN "HeaderRowsZero"
    ELSE IF size < header_len THEN "ChunkSizeNotAboveHeader"
    ELSE "none"

\* excel.rs:47-57: the error of the first check that fails, or "none".
ValidateParameters(size, header_len) ==
    IF size = 0 THEN "ChunkSizeZero"
    ELSE IF header_len = 0 THEN "HeaderRowsZero"
    ELSE IF size <= header_len THEN "ChunkSizeNotAboveHeader"
    ELSE "none"

\* excel.rs:73
RowCountBelowHeader(row_count, header_len) == row_count < header_len

\* A variant of DataCapacity that takes the whole chunk_size for data.
DataCapacityWhole(size, header_len) == size

\* excel.rs:83
DataCapacity(size, header_len) == size - header_len

\* excel.rs:99
ChunkEnd(from, capacity, data_len) == Min(from + capacity, data_len)

\* A variant of ChunkData whose slice starts one row late.
ChunkDataLate(data, from, to) == SubSeq(data, from + 2, to)

\* excel.rs:100, &data_rows[start..end]
ChunkData(data, from, to) == SubSeq(data, from + 1, to)

\* A variant of SplitChunk that reports the chunk's rows without the header.
SplitChunkDataOnly(path, header_len, chunk_data) ==
    [file_path |-> path,
     total_rows |-> Len(chunk_data),
     data_rows |-> Len(chunk_data)]

\* excel.rs:105-109
SplitChunk(path, header_len, chunk_data) ==
    [file_path |-> path,
     total_rows |-> header_len + Len(chunk_data),
     data_rows |-> Len(chunk_data)]

\* excel.rs:86-113 on row counts alone: the data_rows of the chunks pushed
\* for data_len data rows, the loop started at `from`.
RECURSIVE LoopDataRows(_, _, _, _)
LoopDataRows(from, data_len, size, header_len) ==
    IF ~(from < data_len) THEN <<>>
    ELSE LET to == ChunkEnd(from, DataCapacity(size, header_len), data_len)
         IN  <<to - from>> \o LoopDataRows(to, data_len, size, header_len)

PlannedDataRows(row_count, size, header_len) ==
    IF row_count - header_len = 0 THEN <<0>>
    ELSE LoopDataRows(0, row_count - header_len, size, header_len)

\* A variant of AfterWrite that goes on after a failed write.
AfterWriteIgnored(saved, next_pc) == [pc |-> next_pc, result |-> Pending]

\* The `?` after write_chunk, excel.rs:89 and 104: where the call goes on
\* when the workbook was saved, and what it returns at once when not.
AfterWrite(saved, next_pc) ==
    IF saved
    THEN [pc |-> next_pc, result |-> Pending]
    ELSE [pc |-> "done", result |-> Failure("Write")]

\* One write_chunk call as `files` records it: the workbook handed to the
\* writer, the slice of data_rows it was built from and whether save
\* returned Ok.  When it did not, nothing is known of the file on disk.
WriteCall(part, data_start, data_end, chunk_data, saved) ==
    [workbook |-> write_chunk(
                      build_output_path(source, part), header, chunk_data,
                      map_chunk_merges(merge_ranges, header_rows, data_start,
                                       data_end, header, data_rows)),
     data_start |-> data_start,
     data_end |-> data_end,
     saved |-> saved]

Return(e) ==
    /\ pc' = "done"
    /\ result' = Failure(e)

Init ==
    /\ pc = "validate"
    /\ chunk_size \in 0..MaxChunk
    /\ header_rows \in 0..MaxHeader
    /\ source \in SourcePaths
    /\ sheet_name = <<>>
    /\ rows = <<>>
    /\ merge_ranges = <<>>
    /\ start = 0
    /\ index = 1
    /\ chunks = <<>>
    /\ files = <<>>
    /\ result = Pending
    /\ container = NoFile
    /\ extracted = Err("none")
    /\ sheet_refs = <<>>
    /\ cell_text = <<>>
    /\ decoded = Err("none")
    /\ app = NewApp
    /\ tasks = <<>>

\* excel.rs:47-57
Validate ==
    /\ pc = "validate"
    /\ LET e == ValidateParameters(chunk_size, header_rows)
       IN  IF e # "none"
           THEN Return(e)
           ELSE pc' = "open" /\ result' = result
    /\ UNCHANGED parts_vars
    /\ UNCHANGED <<chunk_size, header_rows, sheet_name, rows, merge_ranges,
                   start, index, chunks, files, source>>

\* excel.rs:59-60: open_workbook_auto fails or not.
OpenWorkbook ==
    /\ pc = "open"
    /\ \E opened \in BOOLEAN :
          IF opened
          THEN pc' = "sheet_names" /\ result' = result
          ELSE Return("SourceOpen")
    /\ UNCHANGED parts_vars
    /\ UNCHANGED <<chunk_size, header_rows, sheet_name, rows, merge_ranges,
                   start, index, chunks, files, source>>

\* excel.rs:62-66: the first of the workbook's sheet names, if any.
FirstSheetName ==
    /\ pc = "sheet_names"
    /\ \E names \in {<<>>, <<TxtS1>>} :
          IF names = <<>>
          THEN Return("NoSheet") /\ sheet_name' = sheet_name
          ELSE pc' = "read" /\ result' = result /\ sheet_name' = names[1]
    /\ UNCHANGED parts_vars
    /\ UNCHANGED <<chunk_size, header_rows, rows, merge_ranges,
                   start, index, chunks, files, source>>

\* excel.rs:68-72: worksheet_range fails, or yields the grid.
ReadRange ==
    /\ pc = "read"
    /\ \/ Return("SheetRead") /\ rows' = rows
       \/ \E grid \in Grids :
             pc' = "row_count" /\ result' = result /\ rows' = grid
    /\ UNCHANGED parts_vars
    /\ UNCHANGED <<chunk_size, header_rows, sheet_name, merge_ranges,
                   start, index, chunks, files, source>>

\* excel.rs:73-75
CheckRowCount ==
    /\ pc = "row_count"
    /\ IF RowCountBelowHeader(Len(rows), header_rows)
       THEN Return("RowCountBelowHeader")
       ELSE pc' = "extract" /\ result' = result
    /\ UNCHANGED parts_vars
    /\ UNCHANGED <<chunk_size, header_rows, sheet_name, rows, merge_ranges,
                   start, index, chunks, files, source>>

\* excel.rs:81-86 and 96-97: the merges of the file at `source`, then the
\* branch on data_rows.is_empty().
ExtractMerges ==
    /\ pc = "extract"
    /\ \E file \in SplitFiles :
          LET merges == extract_merge_ranges(SourceFile(source, file),
                                                sheet_name)
          IN  IF merges.ok
              THEN /\ merge_ranges' = merges.value
                   /\ pc' = IF data_rows = <<>> THEN "header_only" ELSE "loop"
                   /\ result' = result
              ELSE /\ merge_ranges' = merge_ranges
                   /\ Return(merges.error)
    /\ UNCHANGED parts_vars
    /\ UNCHANGED <<chunk_size, header_rows, sheet_name, rows,
                   start, index, chunks, files, source>>

\* excel.rs:87-94: the single chunk of a sheet without data rows.
WriteHeaderOnly ==
    /\ pc = "header_only"
    /\ \E saved \in BOOLEAN :
          LET after == AfterWrite(saved, "return")
          IN  /\ files' = Append(files, WriteCall(1, 0, 0, <<>>, saved))
              /\ pc' = after.pc
              /\ result' = after.result
              /\ chunks' = IF saved
                           THEN Append(chunks,
                                       [file_path |-> build_output_path(source, 1),
                                        total_rows |-> header_rows,
                                        data_rows |-> 0])
                           ELSE chunks
    /\ UNCHANGED parts_vars
    /\ UNCHANGED <<chunk_size, header_rows, sheet_name, rows, merge_ranges,
                   start, index, source>>

\* excel.rs:98-112: one iteration of the while loop.
WriteNextChunk ==
    /\ pc = "loop"
    /\ start < Len(data_rows)
    /\ \E saved \in BOOLEAN :
          LET end == ChunkEnd(start, DataCapacity(chunk_size, header_rows),
                              Len(data_rows))
              chunk_data == ChunkData(data_rows, start, end)
              after == AfterWrite(saved, "loop")
          IN  /\ files' = Append(files,
                                 WriteCall(index, start, end, chunk_data, saved))
              /\ pc' = after.pc
              /\ result' = after.result
              /\ IF saved
                 THEN /\ chunks' = Append(chunks,
                                          SplitChunk(build_output_path(source, index),
                                                     header_rows, chunk_data))
                      /\ start' = end
                      /\ index' = index + 1
                 ELSE UNCHANGED <<chunks, start, index>>
    /\ UNCHANGED parts_vars
    /\ UNCHANGED <<chunk_size, header_rows, sheet_name, rows, merge_ranges,
                   source>>

\* excel.rs:115-119
ReturnResult ==
    /\ \/ pc = "return"
       \/ pc = "loop" /\ ~(start < Len(data_rows))
    /\ pc' = "done"
    /\ result' = Success([total_rows |-> total_rows,
                          header_rows |-> header_rows,
                          chunks |-> chunks])
    /\ UNCHANGED parts_vars
    /\ UNCHANGED <<chunk_size, header_rows, sheet_name, rows, merge_ranges,
                   start, index, chunks, files, source>>

Next ==
    \/ Validate
    \/ OpenWorkbook
    \/ FirstSheetName
    \/ ReadRange
    \/ CheckRowCount
    \/ ExtractMerges
    \/ WriteHeaderOnly
    \/ WriteNextChunk
    \/ ReturnResult

Spec == Init /\ [][Next]_vars

-----------------------------------------------------------------------------
(* What the claims speak of, read back from the state.                     *)

\* The columns write_string filled in row r of a worksheet, and whether
\* that row holds exactly the cells of `row`, in order from column 0.
SheetCols(sheet, r) == {rc[2] : rc \in {x \in DOMAIN sheet : x[1] = r}}
SheetRowIs(sheet, r, row) ==
    /\ SheetCols(sheet, r) = 0..(Len(row) - 1)
    /\ \A c \in 0..(Len(row) - 1) : sheet[<<r, c>>] = row[c + 1]
SheetRowNumbers(sheet) == {rc[1] : rc \in DOMAIN sheet}

\* The source's data rows: the rows after the first header_rows rows.
SourceData == [i \in 1..(Len(rows) - header_rows) |-> rows[header_rows + i]]

\* The data rows of the k-th written file, read off its worksheet: the row
\* header_rows + j - 1 of the sheet is the j-th of them.
\* It holds as many data rows as the writer wrote rows after the header.
FileDataLen(k) == files[k].workbook.row_count - header_rows
PlanLen(k) == files[k].data_end - files[k].data_start
FileHoldsData(k, slice) ==
    /\ Len(slice) = FileDataLen(k)
    /\ \A j \in 1..Len(slice) :
          SheetRowIs(files[k].workbook.sheet, header_rows + j - 1, slice[j])

Saved == {k \in DOMAIN files : files[k].saved}

\* Whether the files, in the order written, hold `data` cut into
\* consecutive slices, the k-th file holding the k-th slice.
RECURSIVE HoldInOrder(_, _)
HoldInOrder(k, data) ==
    IF k > Len(files) THEN data = <<>>
    ELSE /\ FileDataLen(k) <= Len(data)
         /\ FileDataLen(k) >= 0
         /\ FileHoldsData(k, SubSeq(data, 1, FileDataLen(k)))
         /\ HoldInOrder(k + 1, SubSeq(data, FileDataLen(k) + 1, Len(data)))

Capacity == chunk_size - header_rows
CeilDiv(a, b) == (a + b - 1) \div b

RECURSIVE SumDataRows(_)
SumDataRows(list) ==
    IF list = <<>> THEN 0 ELSE Head(list).data_rows + SumDataRows(Tail(list))

-----------------------------------------------------------------------------
\* C1: row conservation.  When split_excel_file returns Ok, the data rows
\* read off the written files, file 1 first, are exactly the source rows
\* after the header, in order, none twice and none missing.
C1_RowConservation ==
    result.kind = "Ok" =>
        /\ Saved = DOMAIN files
        /\ HoldInOrder(1, SourceData)

C1_Witness ==
    /\ result.kind = "Ok"
    /\ Len(files) = 2
    /\ FileDataLen(2) > 0
    /\ FileDataLen(2) < FileDataLen(1)

\* C2: chunk sizing.  In the result every chunk but the last has
\* chunk_size - header_rows data rows; the last has between 1 and that
\* many, or 0 when the source has no data row, and then it is the only
\* chunk; the chunks number max(1, ceil(data / capacity)).
C2_ChunkSizing ==
    result.kind = "Ok" =>
        LET list == result.value.chunks
            data_len == Len(rows) - header_rows
        IN  /\ Len(list) = Max(1, CeilDiv(data_len, Capacity))
            /\ \A i \in 1..(Len(list) - 1) : list[i].data_rows = Capacity
            /\ IF data_len = 0
               THEN Len(list) = 1 /\ list[1].data_rows = 0
               ELSE /\ list[Len(list)].data_rows > 0
                    /\ list[Len(list)].data_rows <= Capacity

C2_Witness ==
    /\ result.kind = "Ok"
    /\ Len(result.value.chunks) = 2
    /\ Capacity = 2
    /\ result.value.chunks[2].data_rows = 1

-----------------------------------------------------------------------------
(* Merges and chunks. *)

\* The data rows (0-based indices into the data rows) a merge covers, and
\* the chunk that holds a data row: the loop cuts the data rows into
\* consecutive slices of Capacity rows.
CoveredData(merge) ==
    {d \in 0..(Len(rows) - header_rows - 1) :
        merge.start_row <= header_rows + d /\ header_rows + d <= merge.end_row}
ChunkOfData(d) == d \div Capacity
SpansTwoChunks(merge) ==
    \E d1, d2 \in CoveredData(merge) : ChunkOfData(d1) # ChunkOfData(d2)

\* Whether the k-th written file covers every row of the merge: each is a
\* header row or a data row of the file's slice.
CoveredBy(merge, k) ==
    \A r \in merge.start_row..merge.end_row :
        \/ r < header_rows
        \/ /\ files[k].data_start <= r - header_rows
           /\ r - header_rows < files[k].data_end

\* The merges handed to the writer for the k-th file that come from the
\* i-th source merge.
FromSource(k, i) ==
    map_chunk_merges(<<merge_ranges[i]>>, header_rows, files[k].data_start,
                     files[k].data_end, header, data_rows)
InFile(k, chunk_merge) ==
    \E j \in DOMAIN files[k].workbook.merges :
        files[k].workbook.merges[j] = chunk_merge

\* The text of the source cell (row, col), or the empty text without it.
SourceCell(row, col) ==
    IF row + 1 \in DOMAIN rows /\ col + 1 \in DOMAIN rows[row + 1]
    THEN rows[row + 1][col + 1]
    ELSE <<>>

\* C4: boundary-spanning merges are dropped.  No written file has a merge
\* that comes from a source merge covering data rows of two different
\* chunks.
C4_SpanningDropped ==
    \A k \in Saved : \A i \in DOMAIN merge_ranges :
        SpansTwoChunks(merge_ranges[i]) =>
            /\ FromSource(k, i) = <<>>
            /\ (Len(merge_ranges) = 1 => files[k].workbook.merges = <<>>)

\* C5: contained merges are preserved.  A source merge whose rows all lie
\* in one file's coverage and whose columns fit u16 is in that file's
\* merge list, header rows kept, data rows moved up by data_start, columns
\* unchanged, with the text of the source cell (start_row, start_col) or
\* the empty text when the grid has no such cell.
ExpectedRow(k, r) == IF r < header_rows THEN r ELSE r - files[k].data_start
ExpectedMerge(k, merge) ==
    [start_row |-> ExpectedRow(k, merge.start_row),
     end_row |-> ExpectedRow(k, merge.end_row),
     start_col |-> merge.start_col,
     end_col |-> merge.end_col,
     value |-> SourceCell(merge.start_row, merge.start_col)]

C5_ContainedPreserved ==
    \A k \in DOMAIN files : \A i \in DOMAIN merge_ranges :
        LET merge == merge_ranges[i]
        IN  (/\ CoveredBy(merge, k)
             /\ merge.start_col <= U16Max
             /\ merge.end_col <= U16Max)
            => InFile(k, ExpectedMerge(k, merge))

\* A merge of a data row of the third chunk, anchored in a column that
\* row does not have.
C5_Witness ==
    \E k \in Saved : \E i \in DOMAIN merge_ranges :
        LET merge == merge_ranges[i]
        IN  /\ CoveredBy(merge, k)
            /\ k = 3
            /\ files[k].data_start = 2
            /\ merge.start_row >= header_rows
            /\ merge.start_col = 1
            /\ merge.end_col = 1
            /\ SourceCell(merge.start_row, 1) = <<>>
            /\ InFile(k, ExpectedMerge(k, merge))
            /\ ExpectedMerge(k, merge).start_row = header_rows

-----------------------------------------------------------------------------
\* C6: parameter validation.  The call returns an error, with no
\* SplitResult and no file written, for chunk_size = 0, header_rows = 0,
\* chunk_size <= header_rows, and for a sheet of fewer rows than
\* header_rows; a bad parameter is reported as such.
BadParameters ==
    chunk_size = 0 \/ header_rows = 0 \/ chunk_size <= header_rows
ParameterErrors ==
    {"ChunkSizeZero", "HeaderRowsZero", "ChunkSizeNotAboveHeader"}

C6_ParameterValidation ==
    /\ BadParameters =>
          /\ pc \in {"validate", "done"}
          /\ pc = "done" => result.kind = "Err" /\ result.error \in ParameterErrors
          /\ files = <<>>
    /\ Len(rows) < header_rows =>
          /\ pc \in {"validate", "open", "sheet_names", "read", "row_count",
                      "done"}
          /\ pc = "done" => result.kind = "Err"
          /\ (pc = "done" /\ rows # <<>>)
                => result = Failure("RowCountBelowHeader")
          /\ files = <<>>
    /\ result.kind = "Err" => result.value = EmptySplit

C6_Witness ==
    /\ pc = "done"
    /\ chunk_size = header_rows
    /\ chunk_size > 0
    /\ result = Failure("ChunkSizeNotAboveHeader")

\* C7: SplitResult accuracy.  On success total_rows is the source's row
\* count and header_rows the argument; each chunk has total_rows =
\* header_rows + data_rows <= chunk_size and data_rows the number of data
\* rows written to its file; the data_rows add up to total_rows -
\* header_rows.  The loop's arithmetic, which the chunks follow, gives
\* 497, 497, 209 data rows for 1206 rows, chunk_size 500, header_rows 3.
C7_ResultAccuracy ==
    result.kind = "Ok" =>
        LET list == result.value.chunks
        IN  /\ [i \in DOMAIN list |-> list[i].data_rows]
                  = PlannedDataRows(Len(rows), chunk_size, header_rows)
            /\ PlannedDataRows(1206, 500, 3) = <<497, 497, 209>>
            /\ result.value.total_rows = Len(rows)
            /\ result.value.header_rows = header_rows
            /\ Len(list) = Len(files)
            /\ \A i \in DOMAIN list :
                  /\ list[i].total_rows = header_rows + list[i].data_rows
                  /\ list[i].total_rows <= chunk_size
                  /\ list[i].file_path = files[i].workbook.path
                  /\ list[i].data_rows = FileDataLen(i)
                  /\ SheetRowNumbers(files[i].workbook.sheet)
                        = 0..(list[i].total_rows - 1)
            /\ SumDataRows(list)
                  = result.value.total_rows - result.value.header_rows

C7_Witness ==
    /\ result.kind = "Ok"
    /\ Len(result.value.chunks) = 2
    /\ header_rows = 2
    /\ result.value.chunks[1].total_rows = 3
    /\ result.value.chunks[2].total_rows = 3

\* C8: failure ordering.  Nothing is written before validation, opening,
\* reading, the row-count check and merge extraction are over, so an error
\* of any of them leaves no file; the i-th write is that of part i; only
\* the last write can have failed, and then the call has returned that
\* error, with the files before it saved and no chunk after it written.
C8_FailureOrdering ==
    /\ pc \in {"validate", "open", "sheet_names", "read", "row_count", "extract"}
          => files = <<>>
    /\ (result.kind = "Err" /\ result.error # "Write") => files = <<>>
    /\ \A i \in DOMAIN files :
          /\ files[i].workbook.path = build_output_path(source, i)
          /\ i < Len(files) => files[i].saved
    /\ \A i, j \in DOMAIN files :
          i # j => files[i].workbook.path # files[j].workbook.path
    /\ (files # <<>> /\ ~files[Len(files)].saved)
          <=> (pc = "done" /\ result = Failure("Write"))
    /\ [i \in DOMAIN chunks |-> chunks[i].file_path]
          = [i \in 1..Cardinality(Saved) |-> files[i].workbook.path]

C8_Witness ==
    /\ Len(files) = 3
    /\ ~files[3].saved
    /\ files[1].saved /\ files[2].saved
    /\ pc = "done"
    /\ result = Failure("Write")

-----------------------------------------------------------------------------
(* extract_merge_ranges alone, on containers whose parts may be missing,   *)
(* unreadable or malformed.                                                *)

MaxPartMerges == 2

\* The part with the reader failing at event i + 1: the events before it,
\* then Error.  (The loops stop at the first Err, so what would follow it
\* is never read.)
ErrorEvent == [type |-> "Error", name |-> <<>>, attrs |-> <<>>]
FailingAt(xml, i) == Append(SubSeq(xml, 1, i), ErrorEvent)
PartVariants(xml) == {xml} \cup {FailingAt(xml, i) : i \in 0..Len(xml)}

\* What the archive may hold under a path: nothing, an entry that is not
\* UTF-8, or the part, well-formed or failing somewhere.
EntryOptions(path, xml) ==
    {{}, {[name |-> path, utf8 |-> FALSE, xml |-> <<>>]}}
    \cup {{Entry(path, v)} : v \in PartVariants(xml)}

\* The n merge references A1:B1, A2:B2, ... of a sheet part.
PartRefs(n) ==
    [i \in 1..n |-> CellText(<<"A">>, i) \o <<":">> \o CellText(<<"B">>, i)]

ExtractFiles ==
    {[opens |-> f[1][1], zip |-> f[1][2], archive |-> f[2] \cup f[3] \cup f[4]] :
        f \in {<<TRUE, TRUE>>, <<TRUE, FALSE>>, <<FALSE, FALSE>>}
              \X EntryOptions(PathWorkbookXml, WorkbookXml)
              \X EntryOptions(PathWorkbookRels, RelsXml)
              \X UNION {EntryOptions(SheetPartPath(TxtSheetTarget),
                                     SheetXml(PartRefs(n))) :
                           n \in 0..MaxPartMerges}}

ExtractPaths ==
    {[parent |-> Some("dir"), stem |-> Some("book"), extension |-> ext] :
        ext \in {TxtXlsx, <<"X", "L", "S", "X">>, <<"x", "l", "s">>}}

InitExtract ==
    /\ pc = "container"
    /\ source \in ExtractPaths
    /\ sheet_name = TxtS1
    /\ container \in ExtractFiles
    /\ extracted = Err("none")
    /\ chunk_size = 0
    /\ header_rows = 0
    /\ rows = <<>>
    /\ merge_ranges = <<>>
    /\ start = 0
    /\ index = 1
    /\ chunks = <<>>
    /\ files = <<>>
    /\ result = Pending
    /\ sheet_refs = <<>>
    /\ cell_text = <<>>
    /\ decoded = Err("none")
    /\ app = NewApp
    /\ tasks = <<>>

\* excel.rs:227-249
ExtractAlone ==
    /\ pc = "container"
    /\ extracted' = extract_merge_ranges(SourceFile(source, container),
                                         sheet_name)
    /\ pc' = "extracted"
    /\ UNCHANGED <<chunk_size, header_rows, sheet_name, rows, merge_ranges,
                   start, index, chunks, files, result, source, container,
                   sheet_refs, cell_text, decoded, app, tasks>>

NextExtract == ExtractAlone

SpecExtract == InitExtract /\ [][NextExtract]_vars

-----------------------------------------------------------------------------
(* parse_merge_cells alone, on sheet parts holding arbitrary references.   *)

MaxRefLen == 4
MaxSheetRefs == 2

RefAlphabet == {"A", "Z", "b", "0", "1", ":", "$", " "}
RefTexts == SeqsUpTo(RefAlphabet, MaxRefLen)

\* References for sheet parts with several of them: A1:Z1 and b1 decode,
\* 1A and A0 do not, A$1 holds a character that is no letter and no digit.
SampleRefs == {<<"A", "1", ":", "Z", "1">>, <<"b", "1">>, <<"1", "A">>, <<"A", "0">>, <<"A", "$", "1">>}

InitRefs ==
    /\ pc = "refs"
    /\ sheet_refs \in {<<t>> : t \in RefTexts}
                      \cup SeqsUpTo(SampleRefs, MaxSheetRefs)
    /\ merge_ranges = <<>>
    /\ source \in {p \in SourcePaths : p.extension = TxtXlsx}
    /\ sheet_name = TxtS1
    /\ container = NoFile
    /\ extracted = Err("none")
    /\ chunk_size = 0
    /\ header_rows = 0
    /\ rows = <<>>
    /\ start = 0
    /\ index = 1
    /\ chunks = <<>>
    /\ files = <<>>
    /\ result = Pending
    /\ cell_text = <<>>
    /\ decoded = Err("none")
    /\ app = NewApp
    /\ tasks = <<>>

\* excel.rs:334-361
ParseSheetPart ==
    /\ pc = "refs"
    /\ merge_ranges' = parse_merge_cells(SheetXml(sheet_refs))
    /\ pc' = "parsed"
    /\ UNCHANGED <<chunk_size, header_rows, sheet_name, rows,
                   start, index, chunks, files, result, source, container,
                   extracted, sheet_refs, cell_text, decoded, app, tasks>>

NextRefs == ParseSheetPart

SpecRefs == InitRefs /\ [][NextRefs]_vars

-----------------------------------------------------------------------------
(* Claims about extract_merge_ranges and parse_merge_cells.                *)

\* The reader fails at event i of a part and the scan gets that far: the
\* events before i let the scan run on without returning (not_found is
\* the error the scan ends with when it runs through all its events).
ScanFailsIn(xml, Scan(_), not_found) ==
    \E i \in 1..Len(xml) :
        /\ xml[i].type = "Error"
        /\ LET before == Scan(SubSeq(xml, 1, i - 1))
           IN  ~before.ok /\ before.error = not_found

RelIdScan(xml) == find_sheet_rel_id(xml, sheet_name)

\* The parts extract_merge_ranges looks up in the container, each with
\* what it is scanned for; a part is looked up only when the ones before
\* it gave what the next lookup needs.
WorkbookPart == read_zip_entry(container.archive, PathWorkbookXml)
RelIdOfSheet ==
    IF WorkbookPart.ok THEN RelIdScan(WorkbookPart.value) ELSE Err("none")
RelsPart ==
    IF RelIdOfSheet.ok THEN read_zip_entry(container.archive, PathWorkbookRels)
    ELSE Err("none")
TargetScan(xml) == find_sheet_target(xml, RelIdOfSheet.value)
TargetOfSheet ==
    IF RelsPart.ok THEN TargetScan(RelsPart.value) ELSE Err("none")
SheetPart ==
    IF TargetOfSheet.ok
    THEN read_zip_entry(container.archive, SheetPartPath(TargetOfSheet.value))
    ELSE Err("none")

ContainerOpened ==
    /\ to_ascii_lowercase(source.extension) = TxtXlsx
    /\ container.opens
    /\ container.zip

ReaderFailsInScan ==
    \/ WorkbookPart.ok
       /\ ScanFailsIn(WorkbookPart.value, RelIdScan, "SheetRelationNotFound")
    \/ RelsPart.ok
       /\ ScanFailsIn(RelsPart.value, TargetScan, "SheetPathNotFound")
    \/ SheetPart.ok
       /\ \E i \in 1..Len(SheetPart.value) : SheetPart.value[i].type = "Error"

EntryIsMissing ==
    \/ WorkbookPart.error = "EntryMissing"
    \/ RelsPart.error = "EntryMissing"
    \/ SheetPart.error = "EntryMissing"

\* C9: once extract_merge_ranges has run on a container it could open,
\* it has returned an error whenever the XML reader failed in a part while
\* that part was being scanned (the workbook descriptor, the relationship
\* part or the sheet part, at any position), and whenever an archive entry
\* it looked up was missing; it has not returned Ok with a merge list.
C9_MalformedReported ==
    (pc = "extracted" /\ ContainerOpened /\ (ReaderFailsInScan \/ EntryIsMissing))
        => ~extracted.ok

\* An endpoint decodes, in the words of the claim: a run of letters, then a
\* run of digits, both non-empty, nothing else, and a row number above 0.
EndpointDecodes(cell) ==
    \E k \in 1..(Len(cell) - 1) :
        /\ \A i \in 1..k : is_ascii_alphabetic(cell[i])
        /\ \A i \in (k + 1)..Len(cell) : is_ascii_digit(cell[i])
        /\ parse_usize(SubSeq(cell, k + 1, Len(cell)), 0) >= 1

ReferenceDecodes(ref) ==
    /\ EndpointDecodes(RangeStartText(ref))
    /\ EndpointDecodes(RangeEndText(ref))

RECURSIVE ValidRanges(_)
ValidRanges(refs) ==
    IF refs = <<>> THEN <<>>
    ELSE (IF ReferenceDecodes(Head(refs)) THEN parse_range_ref(Head(refs))
          ELSE None)
         \o ValidRanges(Tail(refs))

\* C10: a merge reference with an endpoint that does not decode (a
\* character outside its letter run and digit run, an empty run, or row 0)
\* gives no range from parse_range_ref, and parse_merge_cells returns the
\* ranges of exactly the other references of the sheet, in document order.
C10_MalformedOmitted ==
    pc = "parsed" =>
        /\ \A i \in 1..Len(sheet_refs) :
               ~ReferenceDecodes(sheet_refs[i])
                   => parse_range_ref(sheet_refs[i]) = None
        /\ merge_ranges = ValidRanges(sheet_refs)

-----------------------------------------------------------------------------
(* The chunk loop of split_excel_file on arbitrary merge lists: the call   *)
(* as it stands at excel.rs:86, the parameters checked, the sheet read and *)
(* extract_merge_ranges returned with up to two ranges of any shape        *)
(* parse_range_ref can give (start <= end in both directions), inside the  *)
(* sheet or beyond it.                                                     *)

PlanColumns == {0, 1}

PlanRanges ==
    {MergeRange(q[1], q[2], q[3], q[4]) :
        q \in {q \in (0..MaxRows) \X (0..MaxRows) \X PlanColumns \X PlanColumns :
                  q[1] <= q[2] /\ q[3] <= q[4]}}

PlanMergeLists ==
    {<<>>} \cup {<<a>> : a \in PlanRanges}
           \cup {<<q[1], q[2]>> : q \in PlanRanges \X PlanRanges}

InitMerges ==
    /\ chunk_size \in 0..MaxChunk
    /\ header_rows \in 0..MaxHeader
    /\ ValidateParameters(chunk_size, header_rows) = "none"
    /\ rows \in Grids
    /\ ~RowCountBelowHeader(Len(rows), header_rows)
    /\ merge_ranges \in PlanMergeLists
    /\ pc = IF Len(rows) = header_rows THEN "header_only" ELSE "loop"
    /\ source = [parent |-> Some("dir"), stem |-> Some("book"),
                 extension |-> TxtXlsx]
    /\ sheet_name = TxtS1
    /\ start = 0
    /\ index = 1
    /\ chunks = <<>>
    /\ files = <<>>
    /\ result = Pending
    /\ container = NoFile
    /\ extracted = Err("none")
    /\ sheet_refs = <<>>
    /\ cell_text = <<>>
    /\ decoded = Err("none")
    /\ app = NewApp
    /\ tasks = <<>>

NextMerges == WriteHeaderOnly \/ WriteNextChunk \/ ReturnResult

SpecMerges == InitMerges /\ [][NextMerges]_vars

-----------------------------------------------------------------------------
(* Claims about the merges handed to the writer.                           *)

FileMerges(k) == files[k].workbook.merges
RowsWritten(k) == header_rows + (files[k].data_end - files[k].data_start)

\* C11: in every write_chunk call of a split, each merge handed to the
\* writer has both its rows in [0, header_rows + (data_end - data_start)),
\* which is the number of rows written to that file; so also in the file
\* of a sheet without data rows, where data_start = data_end = 0.
C11_MergeRowBound ==
    \A k \in DOMAIN files :
        /\ RowsWritten(k) = files[k].workbook.row_count
        /\ \A i \in 1..Len(FileMerges(k)) :
               /\ 0 <= FileMerges(k)[i].start_row
               /\ FileMerges(k)[i].start_row < RowsWritten(k)
               /\ 0 <= FileMerges(k)[i].end_row
               /\ FileMerges(k)[i].end_row < RowsWritten(k)

\* A later chunk that kept one of two source merges, the kept one ending on
\* the last row written, the other one lying beyond the chunk.
C11_Witness ==
    \E k \in DOMAIN files :
        /\ files[k].data_start > 0
        /\ Len(merge_ranges) = 2
        /\ Len(FileMerges(k)) = 1
        /\ FileMerges(k)[1].start_row >= header_rows
        /\ FileMerges(k)[1].end_row = RowsWritten(k) - 1
        /\ \E i \in 1..2 :
               merge_ranges[i].end_row - header_rows >= files[k].data_end

Overlap(a, b) ==
    /\ a.start_row <= b.end_row
    /\ b.start_row <= a.end_row
    /\ a.start_col <= b.end_col
    /\ b.start_col <= a.end_col

PairwiseDisjoint(list) ==
    \A i, j \in 1..Len(list) : i # j => ~Overlap(list[i], list[j])

Upright(list) ==
    \A i \in 1..Len(list) :
        /\ list[i].start_row <= list[i].end_row
        /\ list[i].start_col <= list[i].end_col

\* C13: when the source merge ranges are pairwise non-overlapping
\* rectangles, the merges handed to the writer in every write_chunk call
\* are pairwise non-overlapping in the rows and columns of that file, and
\* none has its start after its end.
C13_DisjointPreserved ==
    (PairwiseDisjoint(merge_ranges) /\ Upright(merge_ranges))
        => \A k \in DOMAIN files :
               PairwiseDisjoint(FileMerges(k)) /\ Upright(FileMerges(k))

\* A later chunk holding both of two disjoint source merges, one of them
\* starting in a header row and ending in a data row of that chunk.
C13_Witness ==
    /\ PairwiseDisjoint(merge_ranges)
    /\ Len(merge_ranges) = 2
    /\ \E k \in DOMAIN files :
           /\ files[k].data_start > 0
           /\ Len(FileMerges(k)) = 2
           /\ \E i \in 1..2 :
                  /\ merge_ranges[i].start_row < header_rows
                  /\ merge_ranges[i].end_row - header_rows >= files[k].data_start
                  /\ FileMerges(k)[i].end_row >= header_rows

-----------------------------------------------------------------------------
(* parse_cell_ref alone, on cell references made of a column label and a   *)
(* row number: short labels in both cases, and the labels around the       *)
(* largest one a usize can hold.                                           *)

MaxLabelLen == 2

LabelAlphabet == {"A", "B", "Z", "a", "z"}
ShortLabels == SeqsUpTo(LabelAlphabet, MaxLabelLen)

\* GKGWBYLWRXTLP is the label of (2^64 - 1) \div 26; with one more letter
\* the product by 26 still fits a usize, and the sum is usize::MAX at O
\* and past it from P on.
UsizeEdgeLabel == <<"G", "K", "G", "W", "B", "Y", "L", "W", "R", "X", "T", "L", "P">>
EdgeLabels == {UsizeEdgeLabel} \cup {Append(UsizeEdgeLabel, ch) : ch \in {"O", "P", "Q"}}

RowTexts == {<<"1">>, <<"2">>, <<"1", "0">>, <<"0">>, <<"0", "7">>}

LabelCells == {q[1] \o q[2] : q \in (ShortLabels \cup EdgeLabels) \X RowTexts}

InitLabels ==
    /\ pc = "cell"
    /\ cell_text \in LabelCells
    /\ decoded = Err("none")
    /\ app = NewApp
    /\ tasks = <<>>
    /\ source \in {p \in SourcePaths : p.extension = TxtXlsx}
    /\ sheet_name = TxtS1
    /\ sheet_refs = <<>>
    /\ merge_ranges = <<>>
    /\ container = NoFile
    /\ extracted = Err("none")
    /\ chunk_size = 0
    /\ header_rows = 0
    /\ rows = <<>>
    /\ start = 0
    /\ index = 1
    /\ chunks = <<>>
    /\ files = <<>>
    /\ result = Pending

\* excel.rs:387-409: the call returns, or panics on an addition past
\* usize::MAX when the build checks for overflow.
DecodeCell ==
    /\ pc = "cell"
    /\ \E overflow_checks \in BOOLEAN :
          decoded' = IF overflow_checks /\ parse_cell_ref_panics(cell_text)
                     THEN Err("Panic")
                     ELSE Ok(parse_cell_ref(cell_text))
    /\ pc' = "decoded"
    /\ UNCHANGED <<chunk_size, header_rows, sheet_name, rows, merge_ranges,
                   start, index, chunks, files, result, source, container,
                   extracted, sheet_refs, cell_text, app, tasks>>

NextLabels == DecodeCell

SpecLabels == InitLabels /\ [][NextLabels]_vars

-----------------------------------------------------------------------------
(* Claims about column and row decoding.                                   *)

ColumnLabel(cell) == SelectSeq(cell, is_ascii_alphabetic)
RowNumber(cell) == parse_usize(SelectSeq(cell, is_ascii_digit), 0)

IsUpperCase(label) == \A i \in 1..Len(label) : \E j \in 1..26 : Upper[j] = label[i]
UpperCase(label) == [i \in 1..Len(label) |-> Upper[LetterOffset(label[i]) + 1]]

RECURSIVE Pow26(_)
Pow26(n) == IF n = 0 THEN 1 ELSE 26 * Pow26(n - 1)

\* The sum of (ci - 'A' + 1) * 26^(n - i) over the letters c1..cn.
RECURSIVE PositionalSum(_)
PositionalSum(label) ==
    IF label = <<>> THEN 0
    ELSE (LetterOffset(Head(label)) + 1) * Pow26(Len(label) - 1)
         + PositionalSum(Tail(label))

\* The labels whose positional sum TLC's integers hold.
SumComputable(label) == Len(label) <= 6

\* C12: column_label_to_index maps A to 0, Z to 25, AA to 26, AZ to 51 and
\* BA to 52; once parse_cell_ref has run on a label followed by a row
\* number above 0, it has returned (not panicked), with the row number
\* minus 1 and, for the label c1..cn, the sum of (ci - 'A' + 1) * 26^(n-i)
\* minus 1; the index of a label is that of its upper-case form, and no
\* other upper-case label has the index of an upper-case one.
C12_ColumnDecoding ==
    /\ column_label_to_index(<<"A">>) = Some(0)
    /\ column_label_to_index(<<"Z">>) = Some(25)
    /\ column_label_to_index(<<"A", "A">>) = Some(26)
    /\ column_label_to_index(<<"A", "Z">>) = Some(51)
    /\ column_label_to_index(<<"B", "A">>) = Some(52)
    /\ (pc = "decoded" /\ ColumnLabel(cell_text) # <<>> /\ RowNumber(cell_text) >= 1)
           => LET label == ColumnLabel(cell_text)
              IN  /\ decoded.ok
                  /\ decoded.value # None => decoded.value[1][1] = RowNumber(cell_text) - 1
                  /\ SumComputable(label)
                         => decoded.value = Some(<<RowNumber(cell_text) - 1,
                                                   PositionalSum(label) - 1>>)
                  /\ column_label_wide(label) = column_label_wide(UpperCase(label))
                  /\ \A other \in ShortLabels \cup EdgeLabels :
                         (IsUpperCase(label) /\ IsUpperCase(other) /\ other # label
                              /\ column_label_wide(label) # None)
                             => column_label_wide(other) # column_label_wide(label)

-----------------------------------------------------------------------------
(* The app over UI frames.  A frame is one call of update (app.rs:191-249):*)
(* poll_promise, then the widgets, of which at most one takes an event in  *)
(* the frame.  The Split button is disabled while a promise is pending, so *)
(* a frame calls start_split only when none is; StartSplitCall is the      *)
(* method called whatever the state.  The split threads run beside the     *)
(* frames and return Ok or Err.                                            *)

MaxTasks == 2

InputTexts == {<<>>, <<"0">>, <<"x">>, <<" ", "3">>}

Frame(after_poll) ==
    /\ pc = "ui"
    /\ app' = after_poll.app
    /\ tasks' = after_poll.tasks

AppUnchanged ==
    UNCHANGED <<pc, chunk_size, header_rows, sheet_name, rows, merge_ranges,
                start, index, chunks, files, result, source, container,
                extracted, sheet_refs, cell_text, decoded>>

InitApp ==
    /\ pc = "ui"
    /\ app = NewApp
    /\ tasks = <<>>
    /\ source \in {p \in SourcePaths : p.extension = TxtXlsx}
    /\ sheet_name = <<>>
    /\ sheet_refs = <<>>
    /\ cell_text = <<>>
    /\ decoded = Err("none")
    /\ merge_ranges = <<>>
    /\ container = NoFile
    /\ extracted = Err("none")
    /\ chunk_size = 0
    /\ header_rows = 0
    /\ rows = <<>>
    /\ start = 0
    /\ index = 1
    /\ chunks = <<>>
    /\ files = <<>>
    /\ result = Pending

\* app.rs:191-249, no widget taking an event.
UpdateIdle ==
    /\ Frame(poll_promise(app, tasks))
    /\ AppUnchanged

\* app.rs:200-206
UpdateEditHeaderRows ==
    /\ \E text \in InputTexts :
          LET polled == poll_promise(app, tasks)
          IN  Frame([polled EXCEPT !.app.header_row_input = text])
    /\ AppUnchanged

\* app.rs:208-214
UpdateEditRowCount ==
    /\ \E text \in InputTexts :
          LET polled == poll_promise(app, tasks)
          IN  Frame([polled EXCEPT !.app.row_count_input = text])
    /\ AppUnchanged

\* app.rs:225-227
UpdatePickFile ==
    /\ \E picked \in {None} \cup {Some(p) : p \in SourcePaths} :
          LET polled == poll_promise(app, tasks)
          IN  Frame([polled EXCEPT !.app = pick_file(polled.app, picked)])
    /\ AppUnchanged

\* app.rs:230-234: the button takes a click only when enabled.
UpdateClickSplit ==
    /\ Len(tasks) < MaxTasks
    /\ LET polled == poll_promise(app, tasks)
           busy == polled.app.split_promise # None
       IN  /\ ~busy
           /\ Frame(start_split(polled.app, polled.tasks))
    /\ AppUnchanged

\* app.rs:81-120 called on its own.
StartSplitCall ==
    /\ Len(tasks) < MaxTasks
    /\ Frame(start_split(app, tasks))
    /\ AppUnchanged

\* app.rs:115-117: split_excel_file returns in its thread.
TaskReturns ==
    /\ pc = "ui"
    /\ \E id \in DOMAIN tasks :
          /\ tasks[id].state = "running"
          /\ \E outcome \in {Ok(<<>>), Err("SplitFailed")} :
                tasks' = [tasks EXCEPT ![id].state = "finished",
                                       ![id].result = outcome]
    /\ app' = app
    /\ AppUnchanged

NextApp ==
    \/ UpdateIdle
    \/ UpdateEditHeaderRows
    \/ UpdateEditRowCount
    \/ UpdatePickFile
    \/ UpdateClickSplit
    \/ StartSplitCall
    \/ TaskReturns

SpecApp == InitApp /\ [][NextApp]_vars

-----------------------------------------------------------------------------
(* Claims about the app.                                                   *)

RunningTasks == {id \in DOMAIN tasks : tasks[id].state = "running"}
UntakenTasks == {id \in DOMAIN tasks : tasks[id].state # "taken"}

\* C14: in every state the app reaches over frames, file picks, Split
\* clicks and calls of start_split, at most one split task is running,
\* and it is the one in split_promise; start_split called with a promise
\* pending changes neither the app (status and promise included) nor the
\* tasks; poll_promise leaves a promise whose task is still running in
\* place; when the task has finished, poll_promise empties split_promise,
\* sets the status to Success or Error after the task's result, and that
\* is the one time the status is set from this task; start_split then
\* starts a new task if the inputs are valid.
C14_SingleSplitInFlight ==
    /\ Cardinality(RunningTasks) <= 1
    /\ Cardinality(UntakenTasks) <= 1
    /\ app.split_promise = None <=> UntakenTasks = {}
    /\ app.split_promise # None => UntakenTasks = {app.split_promise[1]}
    /\ \A id \in DOMAIN tasks :
           tasks[id].reported = IF tasks[id].state = "taken" THEN 1 ELSE 0
    /\ app.split_promise # None
           => LET id == app.split_promise[1]
                  polled == poll_promise(app, tasks)
                  restarted == start_split(polled.app, polled.tasks)
              IN  /\ start_split(app, tasks) = [app |-> app, tasks |-> tasks]
                  /\ tasks[id].state = "running"
                         => polled = [app |-> app, tasks |-> tasks]
                  /\ tasks[id].state = "finished"
                         => /\ polled.app.split_promise = None
                            /\ polled.app.status =
                                   IF tasks[id].result.ok
                                   THEN StatusSuccess("SplitDone")
                                   ELSE StatusError("SplitFailed")
                            /\ polled.tasks[id].reported = 1
                            /\ polled.tasks[id].state = "taken"
                            /\ \A other \in DOMAIN tasks \ {id} :
                                   polled.tasks[other] = tasks[other]
                            /\ poll_promise(polled.app, polled.tasks) = polled
                            /\ (/\ parse_header_rows(app.header_row_input).ok
                                /\ parse_row_limit(app.row_count_input).ok
                                /\ parse_row_limit(app.row_count_input).value
                                       > parse_header_rows(app.header_row_input).value)
                                   => /\ Len(restarted.tasks) = Len(tasks) + 1
                                      /\ restarted.app.split_promise
                                             = Some(Len(tasks) + 1)

\* A second split running after the first one was reported as failed.
C14_Witness ==
    /\ Len(tasks) = 2
    /\ tasks[1].state = "taken"
    /\ ~tasks[1].result.ok
    /\ tasks[1].reported = 1
    /\ tasks[2].state = "running"
    /\ app.split_promise = Some(2)
    /\ app.status = StatusInfo("Splitting")

====
